---- MODULE Spec2Model ----
(***************************************************************************)
(* Guided-meditation site: the session store and its query service         *)
(* (app/meditation_service.py) and the meditation player, a per-view       *)
(* controller driven by one-shot NiceGUI timers (app/meditation_player.py).*)
(***************************************************************************)
EXTENDS Integers, Sequences, FiniteSets, TLC

VARIABLES
    db_sessions,      \* rows of table meditation_sessions, in insertion order
    db_instructions,  \* rows of table meditation_instructions, in insertion order
    fetched,          \* the value returned by the last get_session_by_id call
    view,             \* "none" (no page opened), "player" or "not_found"
    player,           \* the MeditationPlayer object, its widgets and its timers
    completed,        \* history: a completion happened since the last restart
    last_op,          \* history: the last player handler or callback that ran
    listed,           \* the value returned by the last list query of the service
    returned,         \* what the last write request returned, or the error it raised
    views,            \* two further player views, opened on one session
    library           \* the MeditationLibrary object of the catalog page

vars == <<db_sessions, db_instructions, fetched, view, player, completed, last_op,
          listed, returned, views, library>>

(* ------------------------------ bounds -------------------------------- *)

\* Longest instruction list of the session a player is opened on.
MaxSteps == 3
\* Rows the store specification inserts into each table.
MaxSessions == 2
MaxInstructions == 3
\* Completion notifications after which timers are no longer delivered.
MaxNotify == 2

\* duration_seconds values of the played session: absent, zero, positive.
DurationChoices == {<<>>, <<0>>, <<30>>, <<45>>}
\* Amounts of time that pass in one step of the clock.
TimeSteps == {15, 30}

(* ---------------------------- Optional[T] ----------------------------- *)

\* Python's None and a present value, as a sequence of length 0 or 1.
None == <<>>
Some(x) == <<x>>

Max(a, b) == IF a >= b THEN a ELSE b

(* ------------------------------ store --------------------------------- *)

\* Faulty variant: a row built without the input's difficulty_level, which
\* then takes the column's default.
MeditationSession_default_difficulty(id, data) ==
    [id |-> id,
     title |-> data.title,
     description |-> data.description,
     meditation_type |-> data.meditation_type,
     difficulty_level |-> "beginner",
     duration_minutes |-> data.duration_minutes,
     is_active |-> TRUE]

\* A row of meditation_sessions as create_session builds it.
MeditationSession(id, data) ==
    [id |-> id,
     title |-> data.title,
     description |-> data.description,
     meditation_type |-> data.meditation_type,
     difficulty_level |-> data.difficulty_level,
     duration_minutes |-> data.duration_minutes,
     is_active |-> TRUE]

\* Faulty variant: a row built with "duration_seconds or None", which stores a
\* duration of 0 as an absent one.
MeditationInstruction_zero_as_none(id, data) ==
    [id |-> id,
     session_id |-> data.session_id,
     step_order |-> data.step_order,
     instruction_text |-> data.instruction_text,
     duration_seconds |-> IF data.duration_seconds = <<0>> THEN <<>> ELSE data.duration_seconds,
     is_pause |-> data.is_pause]

\* A row of meditation_instructions as add_instruction builds it.
MeditationInstruction(id, data) ==
    [id |-> id,
     session_id |-> data.session_id,
     step_order |-> data.step_order,
     instruction_text |-> data.instruction_text,
     duration_seconds |-> data.duration_seconds,
     is_pause |-> data.is_pause]

\* The primary key the database assigns to a new row of a table.
NextId(table) == Len(table) + 1

\* session.get(MeditationSession, session_id): the rows with that key.
SessionRows(session_id) ==
    {i \in 1..Len(db_sessions) : Some(db_sessions[i].id) = session_id}

\* WHERE MeditationInstruction.session_id == session_id: the selected rows.
InstructionRows(session_id) ==
    {i \in 1..Len(db_instructions) : Some(db_instructions[i].session_id) = session_id}

\* The bijections 1..n -> S, as sequences: the orders a result set can come in.
Orderings(S) ==
    {f \in [1..Cardinality(S) -> S] : \A i, j \in 1..Cardinality(S) : i # j => f[i] # f[j]}

\* Faulty variant: the query without its ORDER BY clause, rows in insertion order.
StorageOrder(S) ==
    {f \in Orderings(S) : \A i \in 1..(Cardinality(S) - 1) : f[i] < f[i + 1]}

\* ORDER BY step_order: every order of the selected rows that is ascending in
\* step_order; rows with equal step_order come in an order SQL leaves open.
OrderByStepOrder(S) ==
    {f \in Orderings(S) :
        \A i \in 1..(Cardinality(S) - 1) :
            db_instructions[f[i]].step_order <= db_instructions[f[i + 1]].step_order}

\* The statement of get_session_by_id, executed.
SelectInstructions(session_id) ==
    {[i \in 1..Cardinality(InstructionRows(session_id)) |-> db_instructions[f[i]]] :
        f \in OrderByStepOrder(InstructionRows(session_id))}

\* The enumerations MeditationType and DifficultyLevel, by value.
MeditationType ==
    {"breathing", "mindfulness", "body_scan", "loving_kindness", "concentration",
     "walking", "visualization"}
DifficultyLevel == {"beginner", "intermediate", "advanced"}

\* Faulty variant: a lower bound of ge=0 on duration_minutes.
MeditationSessionCreate_ge0(raw) ==
    IF /\ Len(raw.title) <= 200
       /\ Len(raw.description) <= 1000
       /\ raw.meditation_type \in MeditationType
       /\ raw.difficulty_level \in DifficultyLevel
       /\ raw.duration_minutes >= 0 /\ raw.duration_minutes <= 120
    THEN Some(raw)
    ELSE None

\* MeditationSessionCreate(...): the validated schema object, or None where
\* the constructor raises ValidationError.
MeditationSessionCreate(raw) ==
    IF /\ Len(raw.title) <= 200
       /\ Len(raw.description) <= 1000
       /\ raw.meditation_type \in MeditationType
       /\ raw.difficulty_level \in DifficultyLevel
       /\ raw.duration_minutes > 0 /\ raw.duration_minutes <= 120
    THEN Some(raw)
    ELSE None

\* MeditationInstructionCreate(...): the validated schema object, or None where
\* the constructor raises ValidationError.
MeditationInstructionCreate(raw) ==
    IF /\ raw.step_order >= 1
       /\ Len(raw.instruction_text) <= 2000
       /\ (raw.duration_seconds # None => raw.duration_seconds[1] >= 0)
    THEN Some(raw)
    ELSE None

\* MeditationService.get_active_sessions
get_active_sessions ==
    LET Test(r) == r.is_active IN SelectSeq(db_sessions, Test)

\* Faulty variant: the query by type without the is_active condition.
get_sessions_by_type_any_status(meditation_type) ==
    LET Test(r) == r.meditation_type = meditation_type IN SelectSeq(db_sessions, Test)

\* MeditationService.get_sessions_by_type
get_sessions_by_type(meditation_type) ==
    LET Test(r) == r.meditation_type = meditation_type /\ r.is_active
    IN  SelectSeq(db_sessions, Test)

\* MeditationService.get_sessions_by_difficulty
get_sessions_by_difficulty(difficulty) ==
    LET Test(r) == r.difficulty_level = difficulty /\ r.is_active
    IN  SelectSeq(db_sessions, Test)

\* meditation_session.instructions = instructions: the loaded session object.
WithInstructions(row, instrs) ==
    [id |-> row.id,
     title |-> row.title,
     description |-> row.description,
     meditation_type |-> row.meditation_type,
     difficulty_level |-> row.difficulty_level,
     duration_minutes |-> row.duration_minutes,
     is_active |-> row.is_active,
     instructions |-> instrs]

\* MeditationService.get_session_by_id: the values a call can return.
get_session_by_id(session_id) ==
    IF session_id = None
    THEN {None}
    ELSE IF SessionRows(session_id) = {}
         THEN {None}
         ELSE {Some(WithInstructions(
                       db_sessions[CHOOSE i \in SessionRows(session_id) : TRUE], instrs)) :
                  instrs \in SelectInstructions(session_id)}

(* ------------------------------ player -------------------------------- *)

\* The decimal digits of a natural number, as str() writes them.
Digit == <<"0", "1", "2", "3", "4", "5", "6", "7", "8", "9">>

RECURSIVE Decimal(_)
Decimal(n) == IF n < 10 THEN Digit[n + 1] ELSE Decimal(n \div 10) \o Digit[(n % 10) + 1]

\* The format specification :02d, zero-padded to at least two digits.
Format02d(n) == IF n < 10 THEN "0" \o Decimal(n) ELSE Decimal(n)

\* sum(inst.duration_seconds or 0 for inst in instructions[:k])
RECURSIVE SumDurations(_, _)
SumDurations(instrs, k) ==
    IF k <= 0 \/ instrs = <<>>
    THEN 0
    ELSE LET n == IF k > Len(instrs) THEN Len(instrs) ELSE k
             d == instrs[n].duration_seconds
         IN  SumDurations(instrs, n - 1) + (IF d = None \/ d = Some(0) THEN 0 ELSE d[1])

\* "not self.session or not self.session.instructions"
NoInstructions(p) == p.session = None \/ p.session[1].instructions = <<>>

Instructions(p) == p.session[1].instructions

\* ui.timer(interval, callback, once=True): a scheduled one-shot timer.
ui_timer(interval) == [interval |-> interval, elapsed |-> 0, fired |-> FALSE]

\* A timer handle that refers to a timer still scheduled to call back.
Pending(t) == t # None /\ ~t[1].fired

\* MeditationPlayer.__init__: the fields before the session is loaded.
NewPlayer(session_id) ==
    [session_id |-> session_id,
     session |-> None,
     current_step |-> 0,
     is_playing |-> FALSE,
     is_paused |-> FALSE,
     timer |-> None,
     instruction_label |-> None,
     progress_bar |-> None,
     time_label |-> None,
     play_button |-> None,
     step_info_label |-> None,
     not_found_label |-> None,
     buttons |-> {},
     stray_timers |-> {},
     notifications |-> 0]

\* MeditationPlayer._update_display
_update_display(p) ==
    IF NoInstructions(p)
    THEN p
    ELSE LET total_steps == Len(Instructions(p))
             current_time == SumDurations(Instructions(p), p.current_step)
             minutes == current_time \div 60
             seconds == current_time % 60
         IN  [p EXCEPT
                !.progress_bar =
                    IF @ # None THEN Some(<<p.current_step, Max(total_steps - 1, 1)>>) ELSE @,
                !.step_info_label =
                    IF @ # None
                    THEN Some("Step " \o Decimal(p.current_step + 1) \o " of " \o Decimal(total_steps))
                    ELSE @,
                !.instruction_label =
                    IF @ # None /\ p.current_step < total_steps
                    THEN Some(Instructions(p)[p.current_step + 1].instruction_text)
                    ELSE @,
                !.time_label =
                    IF @ # None
                    THEN Some(Format02d(minutes) \o ":" \o Format02d(seconds))
                    ELSE @]

\* Faulty variant: completion that also refreshes the display.
_meditation_complete_refreshes(p) ==
    _update_display(
        [p EXCEPT
            !.is_playing = FALSE,
            !.play_button = IF @ # None THEN Some("Complete") ELSE @,
            !.instruction_label = IF @ # None THEN Some("Meditation complete") ELSE @,
            !.notifications = @ + 1,
            !.timer = None])

\* MeditationPlayer._meditation_complete
_meditation_complete(p) ==
    [p EXCEPT
        !.is_playing = FALSE,
        !.play_button = IF @ # None THEN Some("Complete") ELSE @,
        !.instruction_label = IF @ # None THEN Some("Meditation complete") ELSE @,
        !.notifications = @ + 1,
        !.timer = None]

\* Faulty variant: a step arms its timer for any duration that is present (>= 0).
_start_current_step_arms_zero(p) ==
    IF NoInstructions(p)
    THEN p
    ELSE IF p.current_step >= Len(Instructions(p))
         THEN _meditation_complete(p)
         ELSE LET instruction == Instructions(p)[p.current_step + 1]
                  q == _update_display(p)
              IN  IF instruction.duration_seconds # None
                  THEN [q EXCEPT
                          !.timer = Some(ui_timer(instruction.duration_seconds[1])),
                          !.stray_timers =
                              IF Pending(q.timer)
                              THEN @ \cup {[interval |-> q.timer[1].interval,
                                            elapsed |-> q.timer[1].elapsed]}
                              ELSE @]
                  ELSE q

\* Faulty variant: a silent pause step (is_pause) is shown without a timer.
_start_current_step_pause_waits(p) ==
    IF NoInstructions(p)
    THEN p
    ELSE IF p.current_step >= Len(Instructions(p))
         THEN _meditation_complete(p)
         ELSE LET instruction == Instructions(p)[p.current_step + 1]
                  q == _update_display(p)
              IN  IF instruction.duration_seconds # None
                     /\ instruction.duration_seconds # Some(0)
                     /\ instruction.duration_seconds[1] > 0
                     /\ ~instruction.is_pause
                  THEN [q EXCEPT
                          !.timer = Some(ui_timer(instruction.duration_seconds[1])),
                          !.stray_timers =
                              IF Pending(q.timer)
                              THEN @ \cup {[interval |-> q.timer[1].interval,
                                            elapsed |-> q.timer[1].elapsed]}
                              ELSE @]
                  ELSE q

\* MeditationPlayer._start_current_step
_start_current_step(p) ==
    IF NoInstructions(p)
    THEN p
    ELSE IF p.current_step >= Len(Instructions(p))
         THEN _meditation_complete(p)
         ELSE LET instruction == Instructions(p)[p.current_step + 1]
                  q == _update_display(p)
              IN  IF instruction.duration_seconds # None
                     /\ instruction.duration_seconds # Some(0)
                     /\ instruction.duration_seconds[1] > 0
                  THEN [q EXCEPT
                          !.timer = Some(ui_timer(instruction.duration_seconds[1])),
                          \* a timer the handle referred to stays scheduled
                          !.stray_timers =
                              IF Pending(q.timer)
                              THEN @ \cup {[interval |-> q.timer[1].interval,
                                            elapsed |-> q.timer[1].elapsed]}
                              ELSE @]
                  ELSE q

\* Faulty variant: Play that starts over from the first step.
_start_meditation_from_top(p) ==
    IF NoInstructions(p)
    THEN p
    ELSE LET q == [p EXCEPT
                     !.current_step = 0,
                     !.is_playing = TRUE,
                     !.is_paused = FALSE,
                     !.play_button = IF @ # None THEN Some("Pause") ELSE @]
         IN  IF q.current_step < Len(Instructions(q)) THEN _start_current_step(q) ELSE q

\* MeditationPlayer._start_meditation
_start_meditation(p) ==
    IF NoInstructions(p)
    THEN p
    ELSE LET q == [p EXCEPT
                     !.is_playing = TRUE,
                     !.is_paused = FALSE,
                     !.play_button = IF @ # None THEN Some("Pause") ELSE @]
         IN  IF q.current_step < Len(Instructions(q)) THEN _start_current_step(q) ELSE q

\* Faulty variant: Pause that leaves the timer scheduled.
_pause_meditation_keeps_timer(p) ==
    [p EXCEPT
        !.is_playing = FALSE,
        !.is_paused = TRUE,
        !.play_button = IF @ # None THEN Some("Resume") ELSE @]

\* Faulty variant: Pause that stops playback without marking it paused.
_pause_meditation_not_paused(p) ==
    [p EXCEPT
        !.is_playing = FALSE,
        !.play_button = IF @ # None THEN Some("Resume") ELSE @,
        !.timer = None]

\* MeditationPlayer._pause_meditation
_pause_meditation(p) ==
    [p EXCEPT
        !.is_playing = FALSE,
        !.is_paused = TRUE,
        !.play_button = IF @ # None THEN Some("Resume") ELSE @,
        !.timer = None]

\* MeditationPlayer._toggle_play
_toggle_play(p) ==
    IF NoInstructions(p)
    THEN p
    ELSE IF ~p.is_playing THEN _start_meditation(p) ELSE _pause_meditation(p)

\* Faulty variant: Restart that leaves the paused flag as it was.
_restart_keeps_paused(p) ==
    _update_display(
        [p EXCEPT
            !.timer = None,
            !.current_step = 0,
            !.is_playing = FALSE,
            !.play_button = IF @ # None THEN Some("Start") ELSE @])

\* Faulty variant: Restart that leaves the timer scheduled.
_restart_keeps_timer(p) ==
    _update_display(
        [p EXCEPT
            !.current_step = 0,
            !.is_playing = FALSE,
            !.is_paused = FALSE,
            !.play_button = IF @ # None THEN Some("Start") ELSE @])

\* MeditationPlayer._restart
_restart(p) ==
    _update_display(
        [p EXCEPT
            !.timer = None,
            !.current_step = 0,
            !.is_playing = FALSE,
            !.is_paused = FALSE,
            !.play_button = IF @ # None THEN Some("Start") ELSE @])

\* Faulty variant: Previous that does not cancel the timer before it steps.
_previous_step_keeps_timer(p) ==
    IF p.current_step > 0
    THEN LET q == _update_display([p EXCEPT !.current_step = @ - 1])
         IN  IF q.is_playing THEN _start_current_step(q) ELSE q
    ELSE p

\* MeditationPlayer._previous_step
_previous_step(p) ==
    IF p.current_step > 0
    THEN LET q == _update_display([p EXCEPT !.timer = None, !.current_step = @ - 1])
         IN  IF q.is_playing THEN _start_current_step(q) ELSE q
    ELSE p

\* Faulty variant: Next that does not cancel the timer before it steps.
_next_step_keeps_timer(p) ==
    IF NoInstructions(p)
    THEN p
    ELSE IF p.current_step < Len(Instructions(p)) - 1
         THEN LET q == _update_display([p EXCEPT !.current_step = @ + 1])
              IN  IF q.is_playing THEN _start_current_step(q) ELSE q
         ELSE p

\* Faulty variant: Next that completes the session when there is no next instruction.
_next_step_completes(p) ==
    IF NoInstructions(p)
    THEN p
    ELSE IF p.current_step < Len(Instructions(p)) - 1
         THEN LET q == _update_display([p EXCEPT !.timer = None, !.current_step = @ + 1])
              IN  IF q.is_playing THEN _start_current_step(q) ELSE q
         ELSE _meditation_complete([p EXCEPT !.current_step = Len(Instructions(p))])

\* Faulty variant: Next that fetches the session again before it steps.
_next_step_reloads(p) ==
    LET r == [p EXCEPT !.session = CHOOSE s \in get_session_by_id(p.session_id) : TRUE]
    IN  IF NoInstructions(r)
        THEN r
        ELSE IF r.current_step < Len(Instructions(r)) - 1
             THEN LET q == _update_display([r EXCEPT !.timer = None, !.current_step = @ + 1])
                  IN  IF q.is_playing THEN _start_current_step(q) ELSE q
             ELSE r

\* Faulty variant: Next whose bound is off by one (current_step < len).
_next_step_off_by_one(p) ==
    IF NoInstructions(p)
    THEN p
    ELSE IF p.current_step < Len(Instructions(p))
         THEN LET q == _update_display([p EXCEPT !.timer = None, !.current_step = @ + 1])
              IN  IF q.is_playing THEN _start_current_step(q) ELSE q
         ELSE p

\* MeditationPlayer._next_step
_next_step(p) ==
    IF NoInstructions(p)
    THEN p
    ELSE IF p.current_step < Len(Instructions(p)) - 1
         THEN LET q == _update_display([p EXCEPT !.timer = None, !.current_step = @ + 1])
              IN  IF q.is_playing THEN _start_current_step(q) ELSE q
         ELSE p

\* Faulty variant: the callback shows the next step without starting it.
_advance_to_next_step_no_rearm(p) ==
    IF ~p.is_playing
    THEN p
    ELSE LET q == [p EXCEPT !.current_step = @ + 1]
         IN  IF q.session = None \/ q.current_step >= Len(Instructions(q))
             THEN _meditation_complete(q)
             ELSE _update_display(q)

\* MeditationPlayer._advance_to_next_step, the timers' callback
_advance_to_next_step(p) ==
    IF ~p.is_playing
    THEN p
    ELSE LET q == [p EXCEPT !.current_step = @ + 1]
         IN  IF q.session = None \/ q.current_step >= Len(Instructions(q))
             THEN _meditation_complete(q)
             ELSE _start_current_step(q)

\* MeditationPlayer._load_session: any value the service can return.
_load_session(p) ==
    {[p EXCEPT !.session = s] : s \in get_session_by_id(p.session_id)}

\* Faulty variant: create that builds the player's widgets without checking the session.
create_without_check(p) ==
    _update_display(
        [p EXCEPT
            !.instruction_label = Some("Click play to begin your meditation journey"),
            !.progress_bar = Some(<<0, 1>>),
            !.step_info_label = Some("Step 0 of 0"),
            !.time_label = Some("00:00"),
            !.play_button = Some("Start"),
            !.buttons = {"_toggle_play", "_previous_step", "_next_step", "_restart"}])

\* MeditationPlayer.create: builds the widgets unless the session is missing.
create(p) ==
    IF p.session = None
    THEN [p EXCEPT !.not_found_label = Some("Session not found")]
    ELSE _update_display(
            [p EXCEPT
                !.instruction_label = Some("Click play to begin your meditation journey"),
                !.progress_bar = Some(<<0, 1>>),
                !.step_info_label = Some("Step 0 of 0"),
                !.time_label = Some("00:00"),
                !.play_button = Some("Start"),
                !.buttons = {"_toggle_play", "_previous_step", "_next_step", "_restart"}])

(* ------------------------- inputs of the model ------------------------ *)

\* MeditationSessionCreate values handed to create_session.
SessionInputs ==
    {[title |-> "Basic Breathing Meditation",
      description |-> "A gentle introduction to meditation through focused breathing.",
      meditation_type |-> "breathing",
      difficulty_level |-> "beginner", duration_minutes |-> 10]}

\* instruction_text of the instruction at a step.
TextOf(k) == "Instruction " \o Decimal(k)

\* MeditationInstructionCreate values handed to add_instruction.
InstructionInputs ==
    {[session_id |-> sid, step_order |-> k, instruction_text |-> TextOf(k),
      duration_seconds |-> Some(30), is_pause |-> FALSE] :
        sid \in 1..2, k \in 1..3}

\* The ids a caller asks for: absent, stored ones, and one never assigned.
IdInputs == {None} \cup {Some(i) : i \in 1..(MaxSessions + 1)}

\* The instruction table of one session whose steps have the given durations,
\* inserted in step order.
TableOf(durs) ==
    [k \in 1..Len(durs) |->
        MeditationInstruction(k,
            [session_id |-> 1, step_order |-> k, instruction_text |-> TextOf(k),
             duration_seconds |-> durs[k], is_pause |-> FALSE])]

DurationLists == UNION {[1..n -> DurationChoices] : n \in 0..MaxSteps}

\* Field values given to the MeditationSessionCreate constructor.
RawSessionInputs ==
    {[title |-> "Session", description |-> "A session",
      meditation_type |-> ty, difficulty_level |-> lv, duration_minutes |-> m] :
        ty \in {"breathing", "mindfulness"}, lv \in {"beginner", "advanced"},
        m \in {-1, 0, 1, 120, 121}}

\* Field values given to the MeditationInstructionCreate constructor.
RawInstructionInputs ==
    {[session_id |-> sid, step_order |-> k, instruction_text |-> TextOf(k),
      duration_seconds |-> d, is_pause |-> FALSE] :
        sid \in 1..2, k \in 0..2, d \in {None, Some(-1), Some(0), Some(30)}}

\* The instruction table of session sid whose steps have the given durations
\* and is_pause flags, inserted in step order with ids from first_id on.
TableWith(sid, first_id, durs, flags) ==
    [k \in 1..Len(durs) |->
        MeditationInstruction(first_id + k - 1,
            [session_id |-> sid, step_order |-> k, instruction_text |-> TextOf(k),
             duration_seconds |-> durs[k], is_pause |-> flags[k]])]

(* ------------------------------ library ------------------------------- *)

\* MeditationLibrary.__init__
NewLibrary ==
    [sessions |-> <<>>,
     filtered_sessions |-> <<>>,
     selected_type |-> None,
     selected_difficulty |-> None,
     session_container |-> None]

\* The sessions of create_sample_data and the durations of their instructions.
SampleData ==
    <<[session |-> [title |-> "Basic Breathing Meditation",
                    description |-> "A gentle introduction to meditation through focused breathing. Perfect for beginners.",
                    meditation_type |-> "breathing",
                    difficulty_level |-> "beginner",
                    duration_minutes |-> 10],
       durations |-> <<30, 60, 90, 90, 90, 120, 90, 120, 120, 120, 60, 45>>],
      [session |-> [title |-> "Present Moment Awareness",
                    description |-> "Cultivate awareness of the present moment through mindful observation.",
                    meditation_type |-> "mindfulness",
                    difficulty_level |-> "beginner",
                    duration_minutes |-> 15],
       durations |-> <<30, 45, 90, 90, 90, 90, 90, 120, 120, 90, 90, 120, 60, 45>>],
      [session |-> [title |-> "Full Body Relaxation",
                    description |-> "A soothing body scan meditation to release tension and promote deep relaxation.",
                    meditation_type |-> "body_scan",
                    difficulty_level |-> "intermediate",
                    duration_minutes |-> 20],
       durations |-> <<30, 60, 75, 75, 75, 90, 90, 90, 90, 75, 90, 90, 90, 75, 75, 90, 120, 60, 45>>]>>

\* One block of create_sample_data: create_session, then add_instruction for
\* each text and duration, numbered by enumerate(..., 1).
AddSample(store, sample) ==
    LET row   == MeditationSession(NextId(store.sessions),
                                   MeditationSessionCreate(sample.session)[1])
        n     == Len(store.instructions)
        instr == [k \in 1..Len(sample.durations) |->
                     MeditationInstruction(n + k,
                         MeditationInstructionCreate(
                             [session_id |-> row.id, step_order |-> k,
                              instruction_text |-> TextOf(k),
                              duration_seconds |-> Some(sample.durations[k]),
                              is_pause |-> FALSE])[1])]
    IN  [sessions |-> Append(store.sessions, row),
         instructions |-> store.instructions \o instr]

\* MeditationService.create_sample_data, on the tables of the store.
create_sample_data(store) ==
    AddSample(AddSample(AddSample(store, SampleData[1]), SampleData[2]), SampleData[3])

\* get_active_sessions over the rows of a table.
Active(table) ==
    LET Test(r) == r.is_active IN SelectSeq(table, Test)

\* Faulty variant: loading seeds the samples whatever the store holds.
_load_sessions_always_seeds(lib) ==
    LET store  == create_sample_data([sessions |-> db_sessions, instructions |-> db_instructions])
        loaded == Active(store.sessions)
    IN  [store |-> store,
         library |-> [lib EXCEPT !.sessions = loaded, !.filtered_sessions = loaded]]

\* MeditationLibrary._load_sessions: the store and the library it leaves.
_load_sessions(lib) ==
    LET before == [sessions |-> db_sessions, instructions |-> db_instructions]
        store  == IF get_active_sessions = <<>> THEN create_sample_data(before) ELSE before
        loaded == Active(store.sessions)
    IN  [store |-> store,
         library |-> [lib EXCEPT !.sessions = loaded, !.filtered_sessions = loaded]]

\* Faulty variant: the difficulty filter applied to the full list, which
\* drops the type filter whenever both are selected.
_apply_filters_difficulty_over_all(lib) ==
    LET TypeTest(r) == r.meditation_type = lib.selected_type[1]
        DiffTest(r) == r.difficulty_level = lib.selected_difficulty[1]
        by_type     == IF lib.selected_type # None
                       THEN SelectSeq(lib.sessions, TypeTest)
                       ELSE lib.sessions
        by_both     == IF lib.selected_difficulty # None
                       THEN SelectSeq(lib.sessions, DiffTest)
                       ELSE by_type
    IN  [lib EXCEPT !.filtered_sessions = by_both]

\* MeditationLibrary._apply_filters
_apply_filters(lib) ==
    LET TypeTest(r) == r.meditation_type = lib.selected_type[1]
        DiffTest(r) == r.difficulty_level = lib.selected_difficulty[1]
        by_type     == IF lib.selected_type # None
                       THEN SelectSeq(lib.sessions, TypeTest)
                       ELSE lib.sessions
        by_both     == IF lib.selected_difficulty # None
                       THEN SelectSeq(by_type, DiffTest)
                       ELSE by_type
    IN  [lib EXCEPT !.filtered_sessions = by_both]

\* MeditationLibrary._filter_by_type
_filter_by_type(lib, meditation_type) ==
    _apply_filters([lib EXCEPT !.selected_type = meditation_type])

\* MeditationLibrary._filter_by_difficulty
_filter_by_difficulty(lib, difficulty) ==
    _apply_filters([lib EXCEPT !.selected_difficulty = difficulty])

\* MeditationLibrary._clear_filters
_clear_filters(lib) ==
    _apply_filters([lib EXCEPT !.selected_type = None, !.selected_difficulty = None])

\* The options of the two select boxes that the model picks from.
TypeOptions == {None, Some("breathing"), Some("mindfulness"), Some("walking")}
DifficultyOptions == {None, Some("beginner"), Some("intermediate"), Some("advanced")}

(* ------------------------------ actions ------------------------------- *)

\* A caller builds a MeditationInstructionCreate and hands it to
\* add_instruction: the constructor raises, or the service inserts the row and
\* returns it.
RequestInstruction(raw) ==
    /\ IF MeditationInstructionCreate(raw) = None
       THEN /\ returned' = [kind |-> "ValidationError", value |-> None]
            /\ UNCHANGED db_instructions
       ELSE /\ Len(db_instructions) < MaxInstructions
            /\ db_instructions' =
                   Append(db_instructions,
                          MeditationInstruction(NextId(db_instructions),
                                                MeditationInstructionCreate(raw)[1]))
            /\ returned' = [kind |-> "instruction",
                            value |-> Some(db_instructions'[Len(db_instructions')])]
    /\ UNCHANGED <<db_sessions, fetched, view, player, completed, last_op, listed, views>>
    /\ UNCHANGED library

\* A caller builds a MeditationSessionCreate and hands it to create_session:
\* the constructor raises, or the service inserts the row and returns it.
RequestSession(raw) ==
    /\ IF MeditationSessionCreate(raw) = None
       THEN /\ returned' = [kind |-> "ValidationError", value |-> None]
            /\ UNCHANGED db_sessions
       ELSE /\ Len(db_sessions) < MaxSessions
            /\ db_sessions' =
                   Append(db_sessions,
                          MeditationSession(NextId(db_sessions), MeditationSessionCreate(raw)[1]))
            /\ returned' = [kind |-> "session", value |-> Some(db_sessions'[Len(db_sessions')])]
    /\ UNCHANGED <<db_instructions, fetched, view, player, completed, last_op, listed, views>>
    /\ UNCHANGED library

\* A call of MeditationService.get_active_sessions.
ListActive ==
    /\ listed' = [query |-> "active", result |-> get_active_sessions]
    /\ UNCHANGED <<db_sessions, db_instructions, fetched, view, player, completed, last_op,
                   returned, views>>
    /\ UNCHANGED library

\* A call of MeditationService.get_sessions_by_type.
ListByType(meditation_type) ==
    /\ listed' = [query |-> meditation_type, result |-> get_sessions_by_type(meditation_type)]
    /\ UNCHANGED <<db_sessions, db_instructions, fetched, view, player, completed, last_op,
                   returned, views>>
    /\ UNCHANGED library

\* A call of MeditationService.get_sessions_by_difficulty.
ListByDifficulty(difficulty) ==
    /\ listed' = [query |-> difficulty, result |-> get_sessions_by_difficulty(difficulty)]
    /\ UNCHANGED <<db_sessions, db_instructions, fetched, view, player, completed, last_op,
                   returned, views>>
    /\ UNCHANGED library

\* MeditationService.create_session
CreateSession(data) ==
    /\ Len(db_sessions) < MaxSessions
    /\ db_sessions' = Append(db_sessions, MeditationSession(NextId(db_sessions), data))
    /\ UNCHANGED <<db_instructions, fetched, view, player, completed, last_op>>
    /\ UNCHANGED <<listed, returned, views>>
    /\ UNCHANGED library

\* MeditationService.add_instruction
AddInstruction(data) ==
    /\ Len(db_instructions) < MaxInstructions
    /\ db_instructions' =
           Append(db_instructions, MeditationInstruction(NextId(db_instructions), data))
    /\ UNCHANGED <<db_sessions, fetched, view, player, completed, last_op>>
    /\ UNCHANGED <<listed, returned, views>>
    /\ UNCHANGED library

\* A call of MeditationService.get_session_by_id from the tests or a page.
GetSession(session_id) ==
    /\ \E r \in get_session_by_id(session_id) :
           fetched' = [session_id |-> session_id, result |-> r]
    /\ UNCHANGED <<db_sessions, db_instructions, view, player, completed, last_op>>
    /\ UNCHANGED <<listed, returned, views>>
    /\ UNCHANGED library

\* meditation_page: MeditationPlayer(session_id) followed by player.create().
OpenPage(session_id) ==
    /\ view = "none"
    /\ \E p \in _load_session(NewPlayer(session_id)) : player' = create(p)
    /\ view' = "open"
    /\ last_op' = "open"
    /\ UNCHANGED <<db_sessions, db_instructions, fetched, completed>>
    /\ UNCHANGED <<listed, returned, views>>
    /\ UNCHANGED library

\* A click on the play button.
TogglePlay ==
    /\ "_toggle_play" \in player.buttons
    /\ player' = _toggle_play(player)
    /\ last_op' = "toggle_play"
    /\ UNCHANGED <<db_sessions, db_instructions, fetched, view, completed>>
    /\ UNCHANGED <<listed, returned, views>>
    /\ UNCHANGED library

\* A click on the Previous button.
PreviousStep ==
    /\ "_previous_step" \in player.buttons
    /\ player' = _previous_step(player)
    /\ last_op' = "previous"
    /\ UNCHANGED <<db_sessions, db_instructions, fetched, view, completed>>
    /\ UNCHANGED <<listed, returned, views>>
    /\ UNCHANGED library

\* A click on the Next button.
NextStep ==
    /\ "_next_step" \in player.buttons
    /\ player' = _next_step(player)
    /\ last_op' = "next"
    /\ UNCHANGED <<db_sessions, db_instructions, fetched, view, completed>>
    /\ UNCHANGED <<listed, returned, views>>
    /\ UNCHANGED library

\* A click on the Restart button.
Restart ==
    /\ "_restart" \in player.buttons
    /\ player' = _restart(player)
    /\ completed' = FALSE
    /\ last_op' = "restart"
    /\ UNCHANGED <<db_sessions, db_instructions, fetched, view>>
    /\ UNCHANGED <<listed, returned, views>>
    /\ UNCHANGED library

\* The timers that are scheduled: the one self.timer refers to and the strays.
PendingTimers(p) ==
    (IF Pending(p.timer)
     THEN {[interval |-> p.timer[1].interval, elapsed |-> p.timer[1].elapsed]}
     ELSE {}) \cup p.stray_timers

\* The number of scheduled timers.
PendingCount(p) ==
    (IF Pending(p.timer) THEN 1 ELSE 0) + Cardinality(p.stray_timers)

\* Time passes: d seconds, no more than any scheduled timer has left.
Tick(d) ==
    /\ PendingTimers(player) # {}
    /\ \A t \in PendingTimers(player) : t.elapsed + d <= t.interval
    /\ player' = [player EXCEPT
           !.timer = IF Pending(@) THEN Some([@[1] EXCEPT !.elapsed = @ + d]) ELSE @,
           !.stray_timers = {[t EXCEPT !.elapsed = @ + d] : t \in @}]
    /\ last_op' = "tick"
    /\ UNCHANGED <<db_sessions, db_instructions, fetched, view, completed>>
    /\ UNCHANGED <<listed, returned, views>>
    /\ UNCHANGED library

\* The mode of the state machine, read off the player's fields: the code keeps
\* no mode field, and a completed player is one stopped past the last step.
Mode(p) ==
    IF p.is_playing THEN "Playing"
    ELSE IF p.is_paused THEN "Paused"
    ELSE IF ~NoInstructions(p) /\ p.current_step >= Len(Instructions(p)) THEN "Complete"
    ELSE "Idle"

\* A scheduled timer, at its expiry, stops being scheduled.
Expire(p, t) ==
    IF Pending(p.timer) /\ p.timer[1].interval = t.interval /\ p.timer[1].elapsed = t.elapsed
    THEN [p EXCEPT !.timer[1].fired = TRUE]
    ELSE [p EXCEPT !.stray_timers = @ \ {t}]

\* A scheduled timer expires and calls its callback, _advance_to_next_step.
TimerFires ==
    /\ player.notifications < MaxNotify
    /\ \E t \in PendingTimers(player) :
          /\ t.elapsed = t.interval
          /\ player' = _advance_to_next_step(Expire(player, t))
    /\ completed' = (completed \/ player'.notifications > player.notifications)
    /\ last_op' = "timer"
    /\ UNCHANGED <<db_sessions, db_instructions, fetched, view>>
    /\ UNCHANGED <<listed, returned, views>>
    /\ UNCHANGED library

\* The browser tabs that request the page.
Views == {1, 2}

\* Faulty variant: one player object, kept at module level, serves every page.
SetViewShared(ps, i, q) == [j \in DOMAIN ps |-> q]

\* Each page request builds its own MeditationPlayer, whose fields are
\* attributes of that instance: a handler of view i assigns to view i.
SetView(ps, i, q) == [ps EXCEPT ![i] = q]

\* The timers of a player after d more seconds.
Elapse(p, d) ==
    [p EXCEPT
        !.timer = IF Pending(@) THEN Some([@[1] EXCEPT !.elapsed = @ + d]) ELSE @,
        !.stray_timers = {[t EXCEPT !.elapsed = @ + d] : t \in @}]

\* A browser tab requests the page of session 1.
OpenView(i) ==
    /\ views[i].session_id = None
    /\ \E p \in _load_session(NewPlayer(Some(1))) : views' = SetView(views, i, create(p))
    /\ UNCHANGED <<db_sessions, db_instructions, fetched, view, player, completed, last_op,
                   listed, returned>>
    /\ UNCHANGED library

\* A click on the play button of view i.
ViewTogglePlay(i) ==
    /\ "_toggle_play" \in views[i].buttons
    /\ views' = SetView(views, i, _toggle_play(views[i]))
    /\ UNCHANGED <<db_sessions, db_instructions, fetched, view, player, completed, last_op,
                   listed, returned>>
    /\ UNCHANGED library

\* A click on the Previous button of view i.
ViewPreviousStep(i) ==
    /\ "_previous_step" \in views[i].buttons
    /\ views' = SetView(views, i, _previous_step(views[i]))
    /\ UNCHANGED <<db_sessions, db_instructions, fetched, view, player, completed, last_op,
                   listed, returned>>
    /\ UNCHANGED library

\* A click on the Next button of view i.
ViewNextStep(i) ==
    /\ "_next_step" \in views[i].buttons
    /\ views' = SetView(views, i, _next_step(views[i]))
    /\ UNCHANGED <<db_sessions, db_instructions, fetched, view, player, completed, last_op,
                   listed, returned>>
    /\ UNCHANGED library

\* A click on the Restart button of view i.
ViewRestart(i) ==
    /\ "_restart" \in views[i].buttons
    /\ views' = SetView(views, i, _restart(views[i]))
    /\ UNCHANGED <<db_sessions, db_instructions, fetched, view, player, completed, last_op,
                   listed, returned>>
    /\ UNCHANGED library

\* Time passes for every view: d seconds, no more than any scheduled timer of
\* any view has left.
TickViews(d) ==
    /\ \E i \in Views : PendingTimers(views[i]) # {}
    /\ \A i \in Views : \A t \in PendingTimers(views[i]) : t.elapsed + d <= t.interval
    /\ views' = [i \in Views |-> Elapse(views[i], d)]
    /\ UNCHANGED <<db_sessions, db_instructions, fetched, view, player, completed, last_op,
                   listed, returned>>
    /\ UNCHANGED library

\* A scheduled timer of view i expires and calls that view's callback.
ViewTimerFires(i) ==
    /\ views[i].notifications < MaxNotify
    /\ \E t \in PendingTimers(views[i]) :
          /\ t.elapsed = t.interval
          /\ views' = SetView(views, i, _advance_to_next_step(Expire(views[i], t)))
    /\ UNCHANGED <<db_sessions, db_instructions, fetched, view, player, completed, last_op,
                   listed, returned>>
    /\ UNCHANGED library

\* The player after the callback of a timer that is due has run, if one is due.
FireDue(p) ==
    IF \E t \in PendingTimers(p) : t.elapsed = t.interval
    THEN LET t == CHOOSE t \in PendingTimers(p) : t.elapsed = t.interval
         IN  _advance_to_next_step(Expire(p, t))
    ELSE p

\* Two pages are requested, view i for session i.
OpenBoth ==
    /\ \A i \in Views : views[i].session_id = None
    /\ \E p1 \in _load_session(NewPlayer(Some(1))), p2 \in _load_session(NewPlayer(Some(2))) :
          views' = <<create(p1), create(p2)>>
    /\ UNCHANGED <<db_sessions, db_instructions, fetched, view, player, completed, last_op,
                   listed, returned>>
    /\ UNCHANGED library

\* The same button is clicked in both views.
BothTogglePlay ==
    /\ \A i \in Views : "_toggle_play" \in views[i].buttons
    /\ views' = [i \in Views |-> _toggle_play(views[i])]
    /\ UNCHANGED <<db_sessions, db_instructions, fetched, view, player, completed, last_op,
                   listed, returned>>
    /\ UNCHANGED library

BothPreviousStep ==
    /\ \A i \in Views : "_previous_step" \in views[i].buttons
    /\ views' = [i \in Views |-> _previous_step(views[i])]
    /\ UNCHANGED <<db_sessions, db_instructions, fetched, view, player, completed, last_op,
                   listed, returned>>
    /\ UNCHANGED library

BothNextStep ==
    /\ \A i \in Views : "_next_step" \in views[i].buttons
    /\ views' = [i \in Views |-> _next_step(views[i])]
    /\ UNCHANGED <<db_sessions, db_instructions, fetched, view, player, completed, last_op,
                   listed, returned>>
    /\ UNCHANGED library

BothRestart ==
    /\ \A i \in Views : "_restart" \in views[i].buttons
    /\ views' = [i \in Views |-> _restart(views[i])]
    /\ UNCHANGED <<db_sessions, db_instructions, fetched, view, player, completed, last_op,
                   listed, returned>>
    /\ UNCHANGED library

\* The timers that are due fire, in each view that has one.
BothTimersFire ==
    /\ \A i \in Views : views[i].notifications < MaxNotify
    /\ \E i \in Views : \E t \in PendingTimers(views[i]) : t.elapsed = t.interval
    /\ views' = [i \in Views |-> FireDue(views[i])]
    /\ UNCHANGED <<db_sessions, db_instructions, fetched, view, player, completed, last_op,
                   listed, returned>>
    /\ UNCHANGED library

\* The page "/" is requested: MeditationLibrary(), then create(), which builds
\* the widgets and loads the sessions.
OpenLibrary ==
    /\ LET r == _load_sessions([NewLibrary EXCEPT !.session_container = Some("column")])
       IN  /\ db_sessions' = r.store.sessions
           /\ db_instructions' = r.store.instructions
           /\ library' = r.library
    /\ UNCHANGED <<fetched, view, player, completed, last_op, listed, returned, views>>

\* A choice in the select box of meditation types.
FilterByType(meditation_type) ==
    /\ library.session_container # None
    /\ library' = _filter_by_type(library, meditation_type)
    /\ UNCHANGED <<db_sessions, db_instructions, fetched, view, player, completed, last_op,
                   listed, returned, views>>

\* A choice in the select box of difficulty levels.
FilterByDifficulty(difficulty) ==
    /\ library.session_container # None
    /\ library' = _filter_by_difficulty(library, difficulty)
    /\ UNCHANGED <<db_sessions, db_instructions, fetched, view, player, completed, last_op,
                   listed, returned, views>>

\* A click on Clear Filters: both select boxes are set to None, which calls
\* their on_change handlers, and _clear_filters runs.
ClearFilters ==
    /\ library.session_container # None
    /\ library' = _clear_filters(_filter_by_difficulty(_filter_by_type(library, None), None))
    /\ UNCHANGED <<db_sessions, db_instructions, fetched, view, player, completed, last_op,
                   listed, returned, views>>

(* --------------------------- specifications --------------------------- *)

NoFetch == [session_id |-> None, result |-> None]

\* No list query was made, no write was requested, no further view is open.
NoList == [query |-> "none", result |-> <<>>]
NoReturn == [kind |-> "none", value |-> None]
NoViews == <<NewPlayer(None), NewPlayer(None)>>

\* The store of a fresh database; no page is open.
InitStore ==
    /\ db_sessions = <<>>
    /\ db_instructions = <<>>
    /\ fetched = NoFetch
    /\ view = "none"
    /\ player = NewPlayer(None)
    /\ completed = FALSE
    /\ last_op = "init"
    /\ listed = NoList
    /\ returned = NoReturn
    /\ views = NoViews
    /\ library = NewLibrary

NextStore ==
    \/ \E data \in SessionInputs : CreateSession(data)
    \/ \E data \in InstructionInputs : AddInstruction(data)
    \/ \E session_id \in IdInputs : GetSession(session_id)

\* The query service over a growing store.
SpecStore == InitStore /\ [][NextStore]_vars

NextSessions ==
    \/ \E raw \in RawSessionInputs : RequestSession(raw)
    \/ ListActive
    \/ \E ty \in {"breathing", "mindfulness", "walking"} : ListByType(ty)
    \/ \E lv \in DifficultyLevel : ListByDifficulty(lv)

\* Session creation and the catalog's list queries over a growing store.
SpecSessions == InitStore /\ [][NextSessions]_vars

\* A session row whose is_active column has been cleared in the database.
Inactive(row) == [row EXCEPT !.is_active = FALSE]

\* A store that is empty or holds one session that is no longer active.
InitCatalog ==
    /\ \E data \in SessionInputs :
           db_sessions \in {<<>>, <<Inactive(MeditationSession(1, data))>>}
    /\ db_instructions = <<>>
    /\ fetched = NoFetch
    /\ view = "none"
    /\ player = NewPlayer(None)
    /\ completed = FALSE
    /\ last_op = "init"
    /\ listed = NoList
    /\ returned = NoReturn
    /\ views = NoViews
    /\ library = NewLibrary

\* The list queries over a catalog in which not every session is active.
SpecCatalog == InitCatalog /\ [][NextSessions]_vars

\* A store that holds two sessions and no instruction yet.
InitInstructions ==
    /\ \E data \in SessionInputs :
           db_sessions = <<MeditationSession(1, data), MeditationSession(2, data)>>
    /\ db_instructions = <<>>
    /\ fetched = NoFetch
    /\ view = "none"
    /\ player = NewPlayer(None)
    /\ completed = FALSE
    /\ last_op = "init"
    /\ listed = NoList
    /\ returned = NoReturn
    /\ views = NoViews
    /\ library = NewLibrary

NextInstructions ==
    \E raw \in RawInstructionInputs : RequestInstruction(raw)

\* Instructions added, validly or not, to the sessions of a store.
SpecInstructions == InitInstructions /\ [][NextInstructions]_vars

\* A store that holds one session, with any of the instruction lists.
Init ==
    /\ db_sessions =
           <<MeditationSession(1, CHOOSE d \in SessionInputs : TRUE)>>
    /\ \E durs \in DurationLists : db_instructions = TableOf(durs)
    /\ fetched = NoFetch
    /\ view = "none"
    /\ player = NewPlayer(None)
    /\ completed = FALSE
    /\ last_op = "init"
    /\ listed = NoList
    /\ returned = NoReturn
    /\ views = NoViews
    /\ library = NewLibrary

Next ==
    \/ \E session_id \in {None, Some(1), Some(2)} : OpenPage(session_id)
    \/ TogglePlay
    \/ PreviousStep
    \/ NextStep
    \/ Restart
    \/ \E d \in TimeSteps : Tick(d)
    \/ TimerFires

\* One player view over a stored session.
Spec == Init /\ [][Next]_vars

\* A store that holds one session of one to three instructions; no tab is open.
InitTwo ==
    /\ db_sessions =
           <<MeditationSession(1, CHOOSE d \in SessionInputs : TRUE)>>
    /\ \E durs \in {<<Some(30)>>, <<Some(30), None>>, <<Some(30), Some(45)>>,
                     <<Some(45), None, Some(30)>>} :
           db_instructions = TableOf(durs)
    /\ fetched = NoFetch
    /\ view = "none"
    /\ player = NewPlayer(None)
    /\ completed = FALSE
    /\ last_op = "init"
    /\ listed = NoList
    /\ returned = NoReturn
    /\ views = NoViews
    /\ library = NewLibrary

NextTwo ==
    \/ \E i \in Views : OpenView(i)
    \/ \E i \in Views : ViewTogglePlay(i)
    \/ \E i \in Views : ViewPreviousStep(i)
    \/ \E i \in Views : ViewNextStep(i)
    \/ \E i \in Views : ViewRestart(i)
    \/ \E d \in TimeSteps : TickViews(d)
    \/ \E i \in Views : ViewTimerFires(i)

\* Two browser tabs on the page of the same session.
SpecTwo == InitTwo /\ [][NextTwo]_vars

\* A store that holds one session with at most two timed instructions.
InitView ==
    /\ db_sessions =
           <<MeditationSession(1, CHOOSE d \in SessionInputs : TRUE)>>
    /\ \E durs \in {<<>>, <<Some(30)>>, <<Some(30), Some(30)>>} :
           db_instructions = TableOf(durs)
    /\ fetched = NoFetch
    /\ view = "none"
    /\ player = NewPlayer(None)
    /\ completed = FALSE
    /\ last_op = "init"
    /\ listed = NoList
    /\ returned = NoReturn
    /\ views = NoViews
    /\ library = NewLibrary

NextView ==
    \/ Next
    \/ \E data \in SessionInputs : CreateSession(data)
    \/ \E data \in {d \in InstructionInputs : d.step_order = 1} : AddInstruction(data)

\* One player view over a store that other requests keep writing to.
SpecView == InitView /\ [][NextView]_vars

\* A store of two sessions whose instructions agree in everything but the
\* is_pause flags: session 1 has none set, session 2 any.
InitPair ==
    /\ \E data \in SessionInputs :
           db_sessions = <<MeditationSession(1, data), MeditationSession(2, data)>>
    /\ \E n \in 1..2 : \E durs \in [1..n -> DurationChoices], flags \in [1..n -> BOOLEAN] :
           db_instructions =
               TableWith(1, 1, durs, [k \in 1..n |-> FALSE]) \o TableWith(2, n + 1, durs, flags)
    /\ fetched = NoFetch
    /\ view = "none"
    /\ player = NewPlayer(None)
    /\ completed = FALSE
    /\ last_op = "init"
    /\ listed = NoList
    /\ returned = NoReturn
    /\ views = NoViews
    /\ library = NewLibrary

NextPair ==
    \/ OpenBoth
    \/ BothTogglePlay
    \/ BothPreviousStep
    \/ BothNextStep
    \/ BothRestart
    \/ \E d \in TimeSteps : TickViews(d)
    \/ BothTimersFire

\* Two views, of sessions that differ in is_pause only, given the same events.
SpecPair == InitPair /\ [][NextPair]_vars

NextLibrary ==
    \/ OpenLibrary
    \/ \E t \in TypeOptions : FilterByType(t)
    \/ \E d \in DifficultyOptions : FilterByDifficulty(d)
    \/ ClearFilters
    \/ \E raw \in {r \in RawSessionInputs : r.duration_minutes = 1} : RequestSession(raw)

\* The catalog page over a store that is empty, holds an inactive session, or
\* holds sessions created through the service.
SpecLibrary == InitCatalog /\ [][NextLibrary]_vars

\* A user who moves to a step and presses Play, and then leaves the player
\* alone: no click while it plays, none after it has completed.
NextAuto ==
    \/ \E session_id \in {None, Some(1), Some(2)} : OpenPage(session_id)
    \/ (~player.is_playing /\ ~completed /\ NextStep)
    \/ (~player.is_playing /\ ~completed /\ TogglePlay)
    \/ \E d \in TimeSteps : Tick(d)
    \/ TimerFires

\* Time passes while a timer is scheduled, and a timer that is due fires.
SpecAuto ==
    /\ Init
    /\ [][NextAuto]_vars
    /\ WF_vars(\E d \in TimeSteps : Tick(d))
    /\ WF_vars(TimerFires)

(* ------------------------------- claims ------------------------------- *)

\* The duration_seconds of the loaded instructions, in playing order.
Durations(p) ==
    IF p.session = None
    THEN <<>>
    ELSE [k \in 1..Len(Instructions(p)) |-> Instructions(p)[k].duration_seconds]

\* The current instruction exists and has a positive duration.
PositiveStep(p) ==
    /\ ~NoInstructions(p)
    /\ p.current_step < Len(Instructions(p))
    /\ Durations(p)[p.current_step + 1] \notin {None, Some(0)}

\* C1: Auto-Advance never fires after Pause. While the player is paused no
\* timer callback runs, however much time passes, and current_step changes
\* only in a step of Next, Previous or Restart.
C1_NoAutoAdvanceAfterPause ==
    [][(Mode(player) = "Paused") =>
          /\ ~TimerFires
          /\ (player'.current_step # player.current_step =>
                 NextStep \/ PreviousStep \/ Restart)]_vars

\* C1 witness: Pause was pressed during a step that has a positive duration.
C1_Witness ==
    /\ Mode(player) = "Paused"
    /\ last_op = "toggle_play"
    /\ PositiveStep(player)

\* C2: at most one auto-advance timer is scheduled in any reachable state, and
\* no timer was ever armed over one still scheduled (no stray timer exists).
C2_AtMostOneTimer ==
    /\ PendingCount(player) <= 1
    /\ player.stray_timers = {}

\* C2 witness: a timer is scheduled right after a manual step taken while playing.
C2_Witness ==
    /\ last_op \in {"next", "previous"}
    /\ player.is_playing
    /\ Pending(player.timer)
    /\ PendingCount(player) = 1

\* C3: Complete is terminal until Restart. From Complete, a click on Play,
\* Next or Previous leaves current_step and the mode unchanged and arms no timer.
C3_CompleteIsTerminal ==
    [][(Mode(player) = "Complete" /\ (TogglePlay \/ NextStep \/ PreviousStep)) =>
          /\ player'.current_step = player.current_step
          /\ Mode(player') = "Complete"
          /\ PendingCount(player') = 0]_vars

\* C4: an Auto-Advance on the last instruction completes the session, notifies
\* exactly once and leaves no timer scheduled, and no Auto-Advance moves the
\* player again before Restart.
C4_CompleteOnceByAutoAdvance ==
    [][(TimerFires /\ player'.current_step # player.current_step) =>
          /\ ~completed
          /\ (player.current_step = Len(Instructions(player)) - 1 =>
                 /\ Mode(player') = "Complete"
                 /\ player'.notifications = player.notifications + 1
                 /\ PendingCount(player') = 0)]_vars

\* C5 as claimed: Next on the last instruction puts the player in Complete.
C5_NextCompletes ==
    [][(NextStep /\ ~NoInstructions(player)
          /\ player.current_step = Len(Instructions(player)) - 1) =>
          Mode(player') = "Complete"]_vars

\* C5 amended: Next never takes the player into Complete; on the last
\* instruction it changes nothing, so the end is reached by Auto-Advance only.
C5_NextNeverCompletes ==
    [][NextStep =>
          /\ (Mode(player') = "Complete" => Mode(player) = "Complete")
          /\ player'.notifications = player.notifications
          /\ (~NoInstructions(player)
                /\ player.current_step = Len(Instructions(player)) - 1 =>
                 player' = player)]_vars

\* C5 witness: Next was clicked while playing the last instruction.
C5_Witness ==
    /\ last_op = "next"
    /\ player.is_playing
    /\ ~NoInstructions(player)
    /\ player.current_step = Len(Instructions(player)) - 1

\* C6: whenever a player is shown, the time label reads MM:SS of the summed
\* durations (absent as 0) of the instructions before current_step.
C6_ElapsedTimeShown ==
    player.time_label # None =>
        LET total == SumDurations(Instructions(player), player.current_step)
        IN  player.time_label =
                Some(Format02d(total \div 60) \o ":" \o Format02d(total % 60))

\* The session of the end-to-end scenario.
Scenario(p) == Durations(p) = <<Some(30), Some(0), Some(45)>>

\* C7: the session with durations [30, 0, 45]. Play arms 30 s; the timer's
\* firing moves to step 1 and arms nothing; step 1 is left by a manual step
\* only; Next while playing moves to step 2 and arms 45 s; that timer's firing
\* moves past the end and the mode is Complete.
C7_EndToEnd ==
    [][Scenario(player) =>
          /\ (TogglePlay /\ Mode(player) = "Idle" /\ player.current_step = 0 =>
                 /\ Mode(player') = "Playing"
                 /\ player'.timer = Some(ui_timer(30)))
          /\ (TimerFires /\ player.current_step = 0 /\ player.is_playing =>
                 /\ player.timer[1].elapsed = 30
                 /\ player'.current_step = 1
                 /\ Mode(player') = "Playing"
                 /\ PendingCount(player') = 0)
          /\ (player.current_step = 1 /\ player'.current_step # 1 =>
                 NextStep \/ PreviousStep \/ Restart)
          /\ (NextStep /\ player.current_step = 1 /\ player.is_playing =>
                 /\ player'.current_step = 2
                 /\ player'.timer = Some(ui_timer(45))
                 /\ PendingCount(player') = 1)
          /\ (TimerFires /\ player.current_step = 2 /\ player.is_playing =>
                 /\ player.timer[1].elapsed = 45
                 /\ player'.current_step = 3
                 /\ Mode(player') = "Complete")]_vars

\* C7 witness: the scenario's session has played to its end.
C7_Witness ==
    /\ Scenario(player)
    /\ last_op = "timer"
    /\ player.current_step = 3
    /\ Mode(player) = "Complete"
    /\ player.notifications = 1

\* C8: Next on the last instruction, Previous on the first, and Play or Next
\* with no instructions change nothing of the player: index, mode, timer, widgets.
C8_IllegalTransitionsAreNoOps ==
    [][(\/ (NextStep /\ ~NoInstructions(player)
              /\ player.current_step = Len(Instructions(player)) - 1)
        \/ (PreviousStep /\ player.current_step = 0)
        \/ ((TogglePlay \/ NextStep) /\ NoInstructions(player))) =>
          player' = player]_vars

\* C8 witness: Next was clicked on the last of several instructions while a
\* timer was scheduled, and the timer is still the one scheduled.
C8_Witness ==
    /\ last_op = "next"
    /\ ~NoInstructions(player)
    /\ Len(Instructions(player)) > 1
    /\ player.current_step = Len(Instructions(player)) - 1
    /\ Pending(player.timer)
    /\ player.timer[1].elapsed > 0

\* C9: every call of get_session_by_id that finds the session returns its
\* instructions in ascending step_order, and they are exactly the stored
\* instructions whose session_id is the id asked for, each once.
C9_InstructionsSortedByStepOrder ==
    [][\A sid \in IdInputs :
          (GetSession(sid) /\ fetched'.result # None) =>
              LET instrs == fetched'.result[1].instructions
                  stored == {j \in 1..Len(db_instructions) :
                                db_instructions[j].session_id = sid[1]}
              IN  /\ \A i \in 1..(Len(instrs) - 1) :
                         instrs[i].step_order <= instrs[i + 1].step_order
                  /\ \A i \in 1..Len(instrs) : instrs[i].session_id = sid[1]
                  /\ {instrs[i] : i \in 1..Len(instrs)} = {db_instructions[j] : j \in stored}
                  /\ Len(instrs) = Cardinality(stored)]_vars

\* C9 witness: instructions inserted with step_order 3, 1, 2 were fetched and
\* came back as 1, 2, 3 (the rows with ids 2, 3, 1).
C9_Witness ==
    /\ fetched.result # None
    /\ Len(fetched.result[1].instructions) = 3
    /\ [i \in 1..3 |-> fetched.result[1].instructions[i].id] = <<2, 3, 1>>
    /\ [i \in 1..3 |-> fetched.result[1].instructions[i].step_order] = <<1, 2, 3>>

\* An id that is absent or that no stored session has.
Missing(session_id) ==
    \/ session_id = None
    \/ \A i \in 1..Len(db_sessions) : db_sessions[i].id # session_id[1]

\* C10: get_session_by_id returns None for an absent id and for an id not in
\* the store; a page opened on such an id shows "Session not found", has no
\* control bound, and its player stays in the state __init__ left it in.
C10_NotFound ==
    /\ \A sid \in IdInputs : Missing(sid) => get_session_by_id(sid) = {None}
    /\ (view = "open" /\ Missing(player.session_id)) =>
          /\ player.session = None
          /\ player.not_found_label = Some("Session not found")
          /\ player.buttons = {}
          /\ player.play_button = None
          /\ player.current_step = 0
          /\ Mode(player) = "Idle"
          /\ PendingCount(player) = 0
          /\ ~ENABLED (TogglePlay \/ PreviousStep \/ NextStep \/ Restart \/ TimerFires)

\* C10 witness: a page was opened on an id that no stored session has.
C10_Witness ==
    /\ view = "open"
    /\ player.session_id = Some(2)
    /\ player.session = None

\* The elements of a sequence.
Range(seq) == {seq[i] : i \in 1..Len(seq)}

\* The stored sessions.
Stored == Range(db_sessions)

\* Two session records agree on every column the caller supplies or reads.
SameSession(a, b) ==
    /\ a.id = b.id
    /\ a.title = b.title
    /\ a.description = b.description
    /\ a.meditation_type = b.meditation_type
    /\ a.difficulty_level = b.difficulty_level
    /\ a.duration_minutes = b.duration_minutes
    /\ a.is_active = b.is_active

\* C11: a creation request is accepted exactly when duration_minutes lies in
\* 1..120; an accepted request stores the duration unchanged, a rejected one
\* is a validation error that leaves the stored sessions as they were, and so
\* every stored session has a duration in 1..120.
C11_DurationInRange ==
    [][\A raw \in RawSessionInputs : RequestSession(raw) =>
          /\ (returned'.kind = "session") = (raw.duration_minutes \in 1..120)
          /\ returned'.kind = "session" =>
                /\ Len(db_sessions') = Len(db_sessions) + 1
                /\ db_sessions'[Len(db_sessions')].duration_minutes = raw.duration_minutes
          /\ returned'.kind # "session" =>
                /\ returned'.kind = "ValidationError"
                /\ db_sessions' = db_sessions
          /\ \A r \in Range(db_sessions') : r.duration_minutes \in 1..120]_vars

\* Both boundary values are stored and the last request was rejected.
C11_Witness ==
    /\ returned.kind = "ValidationError"
    /\ {r.duration_minutes : r \in Stored} = {1, 120}

\* C12: add_instruction rejects a step_order below 1 and a negative
\* duration_seconds and persists nothing then; every other request, with a
\* duration of 0 or with none among them, stores the fields as given (0 stays
\* 0, absent stays absent) in one new row that belongs to the named session
\* and to no other.
C12_InstructionValidated ==
    [][\A raw \in RawInstructionInputs : RequestInstruction(raw) =>
          LET bad == \/ raw.step_order < 1
                     \/ raw.duration_seconds # None /\ raw.duration_seconds[1] < 0
              n   == Len(db_instructions')
          IN  /\ bad => /\ returned'.kind = "ValidationError"
                        /\ db_instructions' = db_instructions
              /\ ~bad => /\ returned'.kind = "instruction"
                         /\ n = Len(db_instructions) + 1
                         /\ db_instructions' = Append(db_instructions, db_instructions'[n])
                         /\ returned'.value = Some(db_instructions'[n])
                         /\ db_instructions'[n].session_id = raw.session_id
                         /\ db_instructions'[n].step_order = raw.step_order
                         /\ db_instructions'[n].instruction_text = raw.instruction_text
                         /\ db_instructions'[n].duration_seconds = raw.duration_seconds
                         /\ \A r \in Stored :
                               InstructionRows(Some(r.id))' =
                                   InstructionRows(Some(r.id))
                                       \cup (IF r.id = raw.session_id THEN {n} ELSE {})]_vars

\* One session holds a step of duration 0 and a step without duration, the
\* other session holds none, and the last request was rejected.
C12_Witness ==
    /\ returned.kind = "ValidationError"
    /\ \E i, j \in 1..Len(db_instructions) :
          /\ db_instructions[i].duration_seconds = Some(0)
          /\ db_instructions[j].duration_seconds = None
    /\ \A i \in 1..Len(db_instructions) : db_instructions[i].session_id = 1

\* A list holds no row twice.
NoDuplicates(seq) == Cardinality(Range(seq)) = Len(seq)

\* C13: get_active_sessions returns exactly the stored sessions that are
\* active, the empty list when there are none; the queries by type and by
\* difficulty return exactly the active sessions of that type, respectively
\* of that difficulty, each once.
C13_ListQueries ==
    [][/\ ListActive =>
            /\ Range(listed'.result) = {r \in Stored : r.is_active}
            /\ NoDuplicates(listed'.result)
            /\ (Stored = {} => listed'.result = <<>>)
       /\ \A ty \in MeditationType : ListByType(ty) =>
            /\ Range(listed'.result) =
                   {r \in Stored : r.is_active /\ r.meditation_type = ty}
            /\ NoDuplicates(listed'.result)
       /\ \A lv \in DifficultyLevel : ListByDifficulty(lv) =>
            /\ Range(listed'.result) =
                   {r \in Stored : r.is_active /\ r.difficulty_level = lv}
            /\ NoDuplicates(listed'.result)]_vars

\* A query by type has returned the active one of two stored sessions of
\* that type and left out the inactive one.
C13_Witness ==
    /\ listed.query = "breathing"
    /\ Len(listed.result) = 1
    /\ \E r \in Stored : ~r.is_active /\ r.meditation_type = "breathing"
    /\ \E r \in Stored : r.is_active /\ r.meditation_type = "breathing"

\* Every stored session is what get_session_by_id returns for its id.
Retrievable ==
    \A r \in Stored :
        \A got \in get_session_by_id(Some(r.id)) : got # None /\ SameSession(got[1], r)

\* C14: create_session on valid data stores exactly one new session; its id
\* is an integer no other stored session has, it is active, and its title,
\* description, type, difficulty and duration are those of the input;
\* get_session_by_id on that id returns it from then on.
C14_CreateSessionPersists ==
    [][\A raw \in RawSessionInputs :
          (RequestSession(raw) /\ raw.duration_minutes \in 1..120) =>
              LET new == db_sessions'[Len(db_sessions')]
              IN  /\ db_sessions' = Append(db_sessions, new)
                  /\ returned'.value = Some(new)
                  /\ new.id \in Nat
                  /\ \A r \in Stored : r.id # new.id
                  /\ new.is_active
                  /\ new.title = raw.title
                  /\ new.description = raw.description
                  /\ new.meditation_type = raw.meditation_type
                  /\ new.difficulty_level = raw.difficulty_level
                  /\ new.duration_minutes = raw.duration_minutes
                  /\ Retrievable']_vars

\* Two sessions are stored, an advanced one created last and returned.
C14_Witness ==
    /\ Len(db_sessions) = 2
    /\ returned.kind = "session"
    /\ returned.value = Some(db_sessions[2])
    /\ db_sessions[2].difficulty_level = "advanced"
    /\ db_sessions[1].id # db_sessions[2].id

\* No timer armed before the step is still scheduled after it: whatever is
\* scheduled then was armed by the step.
OnlyFreshTimers(p) ==
    /\ p.stray_timers = {}
    /\ (Pending(p.timer) => p.timer[1].elapsed = 0)

\* C15: Play or Resume, pressed while Idle or Paused with instructions loaded,
\* makes the player Playing and keeps current_step; afterwards a timer is
\* scheduled exactly when the current instruction has a positive
\* duration_seconds, and none when the duration is absent or 0.
C15_PlayArmsPositiveStepOnly ==
    [][(TogglePlay /\ Mode(player) \in {"Idle", "Paused"} /\ ~NoInstructions(player)) =>
          /\ Mode(player') = "Playing"
          /\ player'.current_step = player.current_step
          /\ (PendingCount(player') = 1) = PositiveStep(player')
          /\ (PendingCount(player') = 0) = ~PositiveStep(player')]_vars

\* Play was pressed at the second step, whose duration is positive, and its
\* timer has just been armed.
C15_Witness ==
    /\ last_op = "toggle_play"
    /\ Mode(player) = "Playing"
    /\ player.current_step = 1
    /\ PositiveStep(player)
    /\ Pending(player.timer)
    /\ player.timer[1].elapsed = 0

\* C16: Pause, pressed while Playing, makes the player Paused, leaves no timer
\* scheduled and changes neither current_step nor the loaded instructions.
C16_PauseCancelsTimer ==
    [][(TogglePlay /\ Mode(player) = "Playing") =>
          /\ Mode(player') = "Paused"
          /\ PendingCount(player') = 0
          /\ player'.current_step = player.current_step
          /\ player'.session = player.session]_vars

\* Pause was pressed at the second step, whose duration is positive.
C16_Witness ==
    /\ last_op = "toggle_play"
    /\ Mode(player) = "Paused"
    /\ player.current_step = 1
    /\ PositiveStep(player)
    /\ PendingCount(player) = 0

\* C17: in the modes Idle, Playing and Paused, Next before the last step and
\* Previous after the first one move current_step by exactly one, keep the
\* mode and leave no earlier timer scheduled; afterwards a timer is scheduled
\* exactly when the player is Playing and the new current instruction has a
\* positive duration.
C17_ManualStep ==
    [][(/\ Mode(player) \in {"Idle", "Playing", "Paused"}
        /\ \/ (NextStep /\ ~NoInstructions(player)
                  /\ player.current_step < Len(Instructions(player)) - 1)
           \/ (PreviousStep /\ player.current_step > 0)) =>
          /\ (NextStep => player'.current_step = player.current_step + 1)
          /\ (PreviousStep => player'.current_step = player.current_step - 1)
          /\ Mode(player') = Mode(player)
          /\ OnlyFreshTimers(player')
          /\ (PendingCount(player') = 1) = (Mode(player') = "Playing" /\ PositiveStep(player'))
          /\ (PendingCount(player') = 0) =
                 ~(Mode(player') = "Playing" /\ PositiveStep(player'))]_vars

\* Previous was pressed while Playing and the timer of the step it moved to
\* has just been armed.
C17_Witness ==
    /\ last_op = "previous"
    /\ Mode(player) = "Playing"
    /\ player.current_step = 1
    /\ PositiveStep(player)
    /\ Pending(player.timer)
    /\ player.timer[1].elapsed = 0

\* The players a page builds for a session id: __init__, then create.
Opened(session_id) == {create(q) : q \in _load_session(NewPlayer(session_id))}

\* C18: Restart, from any state of the player, yields the state the view was
\* opened in: current_step 0, neither playing nor paused, no timer scheduled,
\* the widgets as create left them; a second Restart changes nothing.
C18_RestartIsInitial ==
    [][Restart =>
          /\ player'.current_step = 0
          /\ Mode(player') = "Idle"
          /\ ~player'.is_playing /\ ~player'.is_paused
          /\ PendingCount(player') = 0
          /\ [player' EXCEPT !.notifications = 0] \in Opened(player.session_id)
          /\ _restart(player') = player']_vars

\* Restart was pressed after the meditation had completed.
C18_Witness ==
    /\ last_op = "restart"
    /\ player.notifications >= 1
    /\ Mode(player) = "Idle"
    /\ player.current_step = 0
    /\ Len(Instructions(player)) >= 2

\* C19: the session of a view, with its instructions, is the one fetched when
\* the page was built; no later step, of the player or of create_session and
\* add_instruction on the store, changes the instructions the view plays or
\* their number.
C19_InstructionsFixedForView ==
    [][/\ \A sid \in {None, Some(1), Some(2)} :
             OpenPage(sid) => player'.session \in get_session_by_id(sid)
       /\ view = "open" =>
             /\ player'.session = player.session
             /\ Durations(player') = Durations(player)
             /\ NoInstructions(player') = NoInstructions(player)]_vars

\* The view plays the second of its two instructions while the store holds
\* three instructions for its session.
C19_Witness ==
    /\ view = "open"
    /\ Mode(player) = "Playing"
    /\ Len(Durations(player)) = 2
    /\ player.current_step = 1
    /\ Cardinality(InstructionRows(player.session_id)) = 3
    /\ Len(db_sessions) = 2

\* An event of view i: the page request, a click on one of its buttons, or
\* one of its timers firing.
ViewEvent(i) ==
    \/ OpenView(i)
    \/ ViewTogglePlay(i)
    \/ ViewPreviousStep(i)
    \/ ViewNextStep(i)
    \/ ViewRestart(i)
    \/ ViewTimerFires(i)

\* C20: two views of one session keep separate playback state. An event of
\* one view, in any interleaving with the other's, leaves the other view's
\* current_step, mode and scheduled timers as they were.
C20_ViewsIndependent ==
    [][\A i \in Views : ViewEvent(i) =>
          \A j \in Views \ {i} :
              /\ views'[j].current_step = views[j].current_step
              /\ Mode(views'[j]) = Mode(views[j])
              /\ PendingTimers(views'[j]) = PendingTimers(views[j])
              /\ views'[j].timer = views[j].timer]_vars

\* One view is paused on the first step while the other, opened on the same
\* session, plays the second step with its timer half elapsed.
C20_Witness ==
    /\ views[1].session = views[2].session
    /\ views[1].session # None
    /\ Mode(views[1]) = "Paused"
    /\ views[1].current_step = 0
    /\ Mode(views[2]) = "Playing"
    /\ views[2].current_step = 1
    /\ Pending(views[2].timer)
    /\ views[2].timer[1].elapsed = 15

\* C21: is_pause does not alter playback. Two views whose instructions differ
\* in their is_pause flags only, given the same clicks and the same timer
\* firings, agree at every moment on current_step, on the mode and on the
\* timers that are scheduled.
C21_IsPauseIgnored ==
    /\ views[1].current_step = views[2].current_step
    /\ Mode(views[1]) = Mode(views[2])
    /\ PendingTimers(views[1]) = PendingTimers(views[2])
    /\ Pending(views[1].timer) = Pending(views[2].timer)

\* Both views play a timed step that is a silent pause in one of them only,
\* and its timer is half elapsed.
C21_Witness ==
    /\ \A i \in Views : Mode(views[i]) = "Playing" /\ PositiveStep(views[i])
    /\ Instructions(views[2])[views[2].current_step + 1].is_pause
    /\ ~Instructions(views[1])[views[1].current_step + 1].is_pause
    /\ Pending(views[2].timer)
    /\ views[2].timer[1].elapsed = 15

\* The stored instructions of a session.
InstructionsOf(table, sid) == {r \in Range(table) : r.session_id = sid}

\* C22: a load of the catalog page seeds the samples exactly when the store
\* holds no active session. A load that finds one creates no session and no
\* instruction; a load that finds none appends exactly three active sessions
\* and loads them, each with at least one instruction, numbered 1..n without
\* gap or repeat, and an empty store then holds exactly these three.
C22_SeedsOnlyEmptyCatalog ==
    [][OpenLibrary =>
          LET had == \E r \in Stored : r.is_active
              old == Len(db_sessions)
          IN  /\ had => /\ db_sessions' = db_sessions
                        /\ db_instructions' = db_instructions
              /\ ~had =>
                   /\ Len(db_sessions') = old + 3
                   /\ SubSeq(db_sessions', 1, old) = db_sessions
                   /\ library'.sessions = SubSeq(db_sessions', old + 1, old + 3)
                   /\ \A i \in (old + 1)..(old + 3) :
                        LET rows == InstructionsOf(db_instructions', db_sessions'[i].id)
                        IN  /\ db_sessions'[i].is_active
                            /\ rows # {}
                            /\ {r.step_order : r \in rows} = 1..Cardinality(rows)
                   /\ \A r \in Range(db_instructions') \ Range(db_instructions) :
                        \E i \in (old + 1)..(old + 3) : r.session_id = db_sessions'[i].id
              /\ library'.sessions = Active(db_sessions')]_vars

\* The catalog was loaded over an empty store: the three samples and their
\* instructions are stored, and the page lists them.
C22_Witness ==
    /\ Len(db_sessions) = 3
    /\ {r.meditation_type : r \in Stored} = {"breathing", "mindfulness", "body_scan"}
    /\ Len(library.sessions) = 3
    /\ Cardinality(InstructionsOf(db_instructions, 3)) = 19
    /\ Len(db_instructions) = 45

\* A session passes the filters that are selected.
Selected(lib, r) ==
    /\ (lib.selected_type # None => r.meditation_type = lib.selected_type[1])
    /\ (lib.selected_difficulty # None => r.difficulty_level = lib.selected_difficulty[1])

\* The loaded sessions that pass the selected filters, in load order.
Expected(lib) ==
    LET Test(r) == Selected(lib, r) IN SelectSeq(lib.sessions, Test)

\* C23: in the catalog, filtered_sessions is always the loaded sessions of
\* the selected type and the selected difficulty, where one is selected, in
\* load order; setting the two filters in either order gives the same list,
\* and clearing the filters gives the full loaded list.
C23_FiltersCompose ==
    /\ library.filtered_sessions = Expected(library)
    /\ \A t \in TypeOptions, d \in DifficultyOptions :
          _filter_by_difficulty(_filter_by_type(library, t), d) =
              _filter_by_type(_filter_by_difficulty(library, d), t)
    /\ _clear_filters(library).filtered_sessions = library.sessions

\* Both filters are selected over the three samples and one session, of two
\* with that difficulty, passes.
C23_Witness ==
    /\ Len(library.sessions) = 3
    /\ library.selected_type = Some("mindfulness")
    /\ library.selected_difficulty = Some("beginner")
    /\ Len(library.filtered_sessions) = 1
    /\ Cardinality({r \in Range(library.sessions) : r.difficulty_level = "beginner"}) = 2

\* The number of instructions the player holds.
StepCount(p) == IF NoInstructions(p) THEN 0 ELSE Len(Instructions(p))

\* C24: whenever the player is Playing, current_step is the index of one of
\* its instructions; Play after completion does not leave it Playing past
\* the end.
C24_PlayingIndexValid ==
    player.is_playing => player.current_step \in 0..(StepCount(player) - 1)

\* C25: current_step stays within 0..N, N the number of instructions; it
\* becomes N only through a timer firing on the last instruction; and the
\* steps that read the current instruction do so at an index below N.
C25_IndexInRange ==
    [][/\ player'.current_step \in 0..StepCount(player')
       /\ (player'.current_step = StepCount(player') /\ player.current_step # player'.current_step
             /\ view = "open") =>
              /\ TimerFires
              /\ player.current_step = StepCount(player) - 1
       /\ (Pending(player'.timer) /\ player'.timer[1].elapsed = 0) =>
              player'.current_step < StepCount(player')]_vars

\* A timer that fired on the last of two instructions has moved current_step
\* to 2.
C25_Witness ==
    /\ last_op = "timer"
    /\ StepCount(player) = 2
    /\ player.current_step = 2

\* C26: a timer is scheduled only while the player is playing. In every state
\* with is_playing false no callback is outstanding, and Play leaves at most
\* the one timer it armed.
C26_TimerOnlyWhilePlaying ==
    [][/\ ~player'.is_playing => PendingCount(player') = 0
       /\ TogglePlay => /\ PendingCount(player') <= 1
                        /\ OnlyFreshTimers(player')]_vars

\* Restart was pressed on a session that never completed; the player is idle
\* on a timed first step and nothing is scheduled.
C26_Witness ==
    /\ last_op = "restart"
    /\ ~player.is_playing
    /\ PositiveStep(player)
    /\ StepCount(player) >= 2
    /\ player.notifications = 0
    /\ PendingCount(player) = 0

\* Every instruction from the current one to the last has a positive duration.
AllPositiveFrom(p) ==
    /\ ~NoInstructions(p)
    /\ p.current_step < Len(Instructions(p))
    /\ \A k \in (p.current_step + 1)..Len(Instructions(p)) :
          Durations(p)[k] \notin {None, Some(0)}

\* C27: a player left alone while Playing at a step from which every
\* instruction has a positive duration eventually reaches Complete, and on the
\* way current_step only moves by one, forward, at a timer's firing: each
\* instruction up to the last is current once, in order.
C27_PlaysThrough ==
    /\ (player.is_playing /\ AllPositiveFrom(player)) ~> (Mode(player) = "Complete")
    /\ [][player.is_playing =>
             \/ player'.current_step = player.current_step
             \/ (player'.current_step = player.current_step + 1 /\ TimerFires)]_vars

\* A session of three timed instructions has played through to completion.
C27_Witness ==
    /\ Mode(player) = "Complete"
    /\ last_op = "timer"
    /\ StepCount(player) = 3
    /\ player.current_step = 3
    /\ \A k \in 1..3 : Durations(player)[k] \notin {None, Some(0)}
    /\ player.notifications = 1

\* The last instruction has no duration or a duration of 0.
UntimedLastStep(p) ==
    /\ ~NoInstructions(p)
    /\ Durations(p)[Len(Instructions(p))] \in {None, Some(0)}

\* C28: a session whose last instruction has a null or zero duration never
\* reaches Complete, whatever is clicked and whichever timers fire: no timer
\* is scheduled on the last step, Next changes nothing there, and current_step
\* stays below the number of instructions.
C28_UntimedLastStepNeverCompletes ==
    [][UntimedLastStep(player') =>
          /\ Mode(player') # "Complete"
          /\ player'.current_step < Len(Instructions(player'))
          /\ player'.notifications = 0
          /\ (player'.current_step = Len(Instructions(player')) - 1 =>
                 PendingCount(player') = 0)
          /\ (NextStep /\ player.current_step = Len(Instructions(player)) - 1 =>
                 player' = player)]_vars

\* A timer has brought the playing session to its last step, which has no
\* duration, and nothing is scheduled.
C28_Witness ==
    /\ UntimedLastStep(player)
    /\ last_op = "timer"
    /\ Mode(player) = "Playing"
    /\ StepCount(player) = 3
    /\ player.current_step = 2
    /\ Durations(player)[3] = None
    /\ PendingCount(player) = 0

\* C29: Resume after Pause arms the timer with the full duration of the
\* current step and nothing elapsed, whatever time had passed in the step
\* before Pause; Pause, Resume and the passing of time leave current_step as
\* it is, so pausing and resuming before each expiry keeps the step for ever.
C29_ResumeRestartsStepTimer ==
    [][/\ (TogglePlay /\ Mode(player) = "Paused" /\ PositiveStep(player)) =>
             /\ PendingTimers(player') =
                    {[interval |-> Durations(player)[player.current_step + 1][1],
                      elapsed |-> 0]}
             /\ Pending(player'.timer)
       /\ (TogglePlay \/ \E d \in TimeSteps : Tick(d)) =>
             player'.current_step = player.current_step]_vars

\* Play was pressed on the third step, of 45 s, and the only timer scheduled
\* is the one of that step, starting from 0.
C29_Witness ==
    /\ last_op = "toggle_play"
    /\ Mode(player) = "Playing"
    /\ PositiveStep(player)
    /\ Durations(player)[player.current_step + 1] = Some(45)
    /\ player.current_step = 2
    /\ PendingTimers(player) = {[interval |-> 45, elapsed |-> 0]}

\* C30: for a session with instructions, the step number on display is one
\* of 1..N and the progress shown, current_step over max(N - 1, 1), lies
\* between 0 and 1; the display is never refreshed while current_step = N.
C30_DisplayInRange ==
    (~NoInstructions(player) /\ player.step_info_label # None) =>
        LET N == Len(Instructions(player))
        IN  /\ player.step_info_label \in
                  {Some("Step " \o Decimal(k) \o " of " \o Decimal(N)) : k \in 1..N}
            /\ player.progress_bar # None
            /\ player.progress_bar[1][1] >= 0
            /\ player.progress_bar[1][1] <= player.progress_bar[1][2]
            /\ player.progress_bar[1][2] = Max(N - 1, 1)
            /\ (player.current_step < N =>
                  /\ player.step_info_label =
                         Some("Step " \o Decimal(player.current_step + 1) \o " of " \o Decimal(N))
                  /\ player.progress_bar[1][1] = player.current_step)

\* The session of two instructions has completed (current_step = 2) and the
\* display still shows the last step.
C30_Witness ==
    /\ StepCount(player) = 2
    /\ player.current_step = 2
    /\ player.step_info_label = Some("Step 2 of 2")
    /\ player.progress_bar = Some(<<1, 1>>)

====
